---- MODULE Spec2Model ----
(***************************************************************************)
(* InsightForge: the Home page (topic form, generation request, history    *)
(* kept in localStorage, PDF export), the ReportDisplay editor and the     *)
(* ThemeToggle, modelled as a state machine over the React state of the    *)
(* components, the browser's localStorage and the document being exported. *)
(*                                                                         *)
(* Strings whose characters matter (topics, themes, the JSON text kept in  *)
(* localStorage) are sequences of one-character strings.  Section texts    *)
(* are opaque strings.                                                     *)
(*                                                                         *)
(* One action is one event handler (or one awaited continuation) together  *)
(* with the re-render and the effects React runs before the next event.    *)
(* The PDF export is followed draw by draw, with nothing in between.       *)
(***************************************************************************)
EXTENDS Integers, Sequences, FiniteSets, TLC

VARIABLES
    phase,           \* "rendered": first render done, effects not yet run; "mounted"
    report,          \* Home: useState<ReportData | null>
    isLoading,       \* Home: useState(false)
    history,         \* Home: useLocalStorage('report-history', []) value
    topicField,      \* the form's 'topic' value
    topicError,      \* the form shows a validation message for 'topic'
    pending,         \* generation requests awaited by an onSubmit call
    settled,         \* the onSubmit call that returned last, and what it was given
    storage,         \* window.localStorage: a function from the keys present
    storageFault,    \* the localStorage call that throws in this browser, or "none"
    toast,           \* title of the last notification shown
    editableReport,  \* ReportDisplay: useState<Report>(report)
    editingSection,  \* ReportDisplay: useState<ReportSection | null>
    editContent,     \* ReportDisplay: useState('')
    edits,           \* number of saved edits of the current report
    theme,           \* ThemeToggle: useLocalStorage('theme', 'light') value
    docClass,        \* classes of document.documentElement
    exportPc,        \* handleExportPdf: "idle", or where the running call stands
    fileName,        \* handleExportPdf: const fileName
    pdf,             \* handleExportPdf: what has been drawn into the jsPDF document
    pageNum,         \* handleExportPdf: let pageNum
    y,               \* handleExportPdf: let y
    sectionIdx,      \* handleExportPdf: position of sectionOrder.forEach
    lineIdx,         \* handleExportPdf: position of contentLines.forEach
    wrapped,         \* lines pdf.splitTextToSize makes of each section's text
    saved            \* the file pdf.save downloaded last

vars == <<phase, report, isLoading, history, topicField, topicError, pending,
          settled, storage, storageFault, toast, editableReport, editingSection, editContent, edits,
          theme, docClass, exportPc, fileName, pdf, pageNum, y, sectionIdx, lineIdx,
          wrapped, saved>>

homeVars == <<report, isLoading, history, topicField, topicError, pending, settled, toast>>
editVars == <<editableReport, editingSection, editContent, edits>>
themeVars == <<theme, docClass>>
exportLocals == <<exportPc, fileName, pdf, pageNum, y, sectionIdx, lineIdx>>
exportVars == <<exportPc, fileName, pdf, pageNum, y, sectionIdx, lineIdx, wrapped, saved>>

-----------------------------------------------------------------------------
(* Bounds and program constants *)

\* saved edits of one report the model follows
MaxSaves == 1

\* z.string().min(3)
MinTopicLen == 3
\* z.string().max(100)
MaxTopicLen == 100

\* most lines one section's text is wrapped into
MaxLines == 40

\* const pageMargin = 20 (mm)
pageMargin == 20
\* pdf.internal.pageSize.getHeight() of an a4 page in mm (297.0000833 in
\* jsPDF; y is a whole number, so the comparisons come out as with 297)
pageHeight == 297
\* const lineHeight = 8
lineHeight == 8
\* `y + 25 > ...`: the room a heading asks for
headingRoom == 25
\* `y += 7` after the heading, `y += 8` after the rule, `y += 10` after a section
headingAdvance == 7
ruleAdvance == 8
sectionGap == 10

-----------------------------------------------------------------------------
(* Values *)

\* null of a ReportData | null, and of a result's missing member
Null == [null |-> TRUE]
\* null of a ReportSection | null
NoSection == "null"

Rep(c, n) == [i \in 1..n |-> c]

\* the topics typed into the form: below, at and above the length limits
TopicShort == <<"a", "b">>
TopicMin == <<"q", "\"", "\\">>
TopicMax == Rep("k", MaxTopicLen)
TopicLong == Rep("k", MaxTopicLen + 1)
FormInputs == {TopicShort, TopicMin, TopicMax, TopicLong}
\* a topic generated on an earlier visit
TopicOld == <<"o", "l", "d">>

Light == <<"l", "i", "g", "h", "t">>
Dark == <<"d", "a", "r", "k">>

HistoryKey == "report-history"
ThemeKey == "theme"

sectionOrder ==
    <<"introduction", "history", "benefits", "challenges", "currentTrends", "futureScope">>
Sections == {sectionOrder[i] : i \in 1..Len(sectionOrder)}

\* texts typed into the edit buffer
EditTexts == {"", "typed"}

Range(s) == {s[i] : i \in 1..Len(s)}

-----------------------------------------------------------------------------
(* JSON.stringify and JSON.parse on the values the hook stores: a string,  *)
(* or an array of strings.  The text is a sequence of characters.          *)

\* (variant: no character is escaped)
EscapeCharNone(c) == <<c>>

EscapeChar(c) ==
    IF c = "\"" THEN <<"\\", "\"">>
    ELSE IF c = "\\" THEN <<"\\", "\\">>
    ELSE <<c>>

\* every character escaped, the halves of the string one after the other
RECURSIVE Escape(_)
Escape(s) ==
    IF s = <<>> THEN <<>>
    ELSE IF Len(s) = 1 THEN EscapeChar(s[1])
    ELSE LET m == Len(s) \div 2
         IN Escape(SubSeq(s, 1, m)) \o Escape(SubSeq(s, m + 1, Len(s)))

JsonString(s) == <<"\"">> \o Escape(s) \o <<"\"">>

RECURSIVE JsonItems(_)
JsonItems(a) ==
    IF a = <<>> THEN <<>>
    ELSE IF Len(a) = 1 THEN JsonString(a[1])
    ELSE JsonString(a[1]) \o <<",">> \o JsonItems(Tail(a))

JsonArray(a) == <<"[">> \o JsonItems(a) \o <<"]">>

ParseFail == [ok |-> FALSE, val |-> <<>>, next |-> 0]

Min(S) == CHOOSE x \in S : \A z \in S : x <= z

\* the number of backslashes that end right before position j, from lo on
BackslashesBefore(txt, lo, j) ==
    Cardinality({n \in 1..(j - lo) : \A k \in (j - n)..(j - 1) : txt[k] = "\\"})

\* position j follows an escaping backslash
IsEscaped(txt, lo, j) == BackslashesBefore(txt, lo, j) % 2 = 1

\* a string literal at position i: its characters up to the first quote
\* that is not escaped, each escape replaced by the character it stands for
ParseString(txt, i) ==
    IF ~(i <= Len(txt) /\ txt[i] = "\"") THEN ParseFail
    ELSE LET lo == i + 1
             closes == {j \in lo..Len(txt) : txt[j] = "\"" /\ ~IsEscaped(txt, lo, j)}
         IN IF closes = {} THEN ParseFail
            ELSE LET close == Min(closes)
                     escapers == {p \in lo..(close - 1) :
                                     txt[p] = "\\" /\ ~IsEscaped(txt, lo, p)}
                     keep == (lo..(close - 1)) \ escapers
                     at(n) == CHOOSE p \in (lo - 1 + n)..(lo - 1 + n + Cardinality(escapers)) :
                                 /\ p \in keep
                                 /\ p - lo + 1 - Cardinality({e \in escapers : e < p}) = n
                 IN IF \A p \in escapers : txt[p + 1] \in {"\"", "\\"}
                    THEN [ok |-> TRUE,
                          val |-> [n \in 1..Cardinality(keep) |-> txt[at(n)]],
                          next |-> close + 1]
                    ELSE ParseFail

\* the elements of an array from position i (at an element)
RECURSIVE ScanItems(_, _, _)
ScanItems(txt, i, acc) ==
    LET e == ParseString(txt, i)
    IN IF ~e.ok \/ e.next > Len(txt) THEN ParseFail
       ELSE IF txt[e.next] = "]"
            THEN [ok |-> TRUE, val |-> Append(acc, e.val), next |-> e.next + 1]
       ELSE IF txt[e.next] = ","
            THEN ScanItems(txt, e.next + 1, Append(acc, e.val))
       ELSE ParseFail

ParseArray(txt, i) ==
    IF i + 1 <= Len(txt) /\ txt[i] = "[" /\ txt[i + 1] = "]"
    THEN [ok |-> TRUE, val |-> <<>>, next |-> i + 2]
    ELSE IF i <= Len(txt) /\ txt[i] = "[" THEN ScanItems(txt, i + 1, <<>>)
    ELSE ParseFail

\* JSON.parse(item): ok = FALSE stands for the SyntaxError it throws
JsonParse(txt) ==
    LET r == IF txt # <<>> /\ txt[1] = "[" THEN ParseArray(txt, 1) ELSE ParseString(txt, 1)
    IN IF r.ok /\ r.next = Len(txt) + 1 THEN r ELSE ParseFail

-----------------------------------------------------------------------------
(* window.localStorage *)

HasItem(st, key) == key \in DOMAIN st

\* `if (item)`: getItem returned a non-empty string
ItemTruthy(st, key) == HasItem(st, key) /\ st[key] # <<>>

SetItem(st, key, text) ==
    [k \in DOMAIN st \cup {key} |-> IF k = key THEN text ELSE st[k]]

-----------------------------------------------------------------------------
(* useLocalStorage *)

\* window.localStorage.getItem / setItem throws (storage denied, quota full)
GetItemThrows == storageFault = "getItem"
SetItemThrows == storageFault = "setItem"

\* (variant: the item is taken as read whatever getItem and JSON.parse do)
ReadSetsStateUnguarded(st, key) == ItemTruthy(st, key)

\* the read effect sets the state when getItem gives a non-empty item that
\* JSON.parse accepts; when either throws, the catch only warns
ReadSetsState(st, key) == ~GetItemThrows /\ ItemTruthy(st, key) /\ JsonParse(st[key]).ok

\* (variant: the effect reads the item but sets no state)
ReadEffectKeepsState(st, key, storedValue) == storedValue

ReadEffect(st, key, storedValue) ==
    IF ReadSetsState(st, key) THEN JsonParse(st[key]).val ELSE storedValue

\* the write effect; isInitialValue is storedValue === initialValue, which
\* compares an array by identity and a string by value
\* (a setItem that throws is caught and only warned about)
WriteEffect(st, key, text, isInitialValue) ==
    IF ~isInitialValue /\ ~SetItemThrows THEN SetItem(st, key, text) ELSE st

\* (variant: the array is compared with the initial value by its content)
HomeRenderedByValue(st, hist) ==
    WriteEffect(st, HistoryKey, JsonArray(hist), hist = <<>>)

\* Home re-rendered: its `[]` argument is a new array in every render, so
\* the write effect runs again and finds storedValue !== initialValue
HomeRendered(st, hist) == WriteEffect(st, HistoryKey, JsonArray(hist), FALSE)

\* ThemeToggle re-rendered with a new theme
ThemeRendered(st, th) == WriteEffect(st, ThemeKey, JsonString(th), th = Light)

-----------------------------------------------------------------------------
(* The generation flow and the server action *)

ReportFull ==
    [introduction |-> "Intro", history |-> "Hist", benefits |-> "Bene",
     challenges |-> "Chal", currentTrends |-> "Tren", futureScope |-> "Futu"]
ReportBlank == [s \in Sections |-> ""]
ReportPartial ==
    [introduction |-> "Intro", history |-> "Hist", benefits |-> "Bene",
     challenges |-> "Chal", currentTrends |-> "Tren"]

\* what the prompt call gives: it throws, or it yields an output
ModelOutcomes ==
    {[threw |-> TRUE, output |-> Null],
     [threw |-> FALSE, output |-> Null],
     [threw |-> FALSE, output |-> [report |-> ReportFull]],
     [threw |-> FALSE, output |-> [report |-> ReportBlank]],
     [threw |-> FALSE, output |-> [report |-> ReportPartial]]}

\* (variant: the six fields of the report are not required)
GenerateReportOutputSchemaLoose(output) == "report" \in DOMAIN output

GenerateReportOutputSchema(output) ==
    /\ "report" \in DOMAIN output
    /\ Sections \subseteq DOMAIN output.report

\* generateReportFlow: the prompt's output, checked against the output schema
generateReportFlow(outcome) ==
    IF ~outcome.threw /\ GenerateReportOutputSchema(outcome.output)
    THEN [threw |-> FALSE, value |-> outcome.output]
    ELSE [threw |-> TRUE, value |-> Null]

\* the server action: the flow's report, or an error string ("" stands for
\* an absent member)
handleGenerateReport(outcome) ==
    LET r == generateReportFlow(outcome)
    IN IF r.threw THEN [error |-> "Failed to generate report.", report |-> Null]
       ELSE [error |-> "", report |-> r.value.report]

\* onSubmit's test `result.error || !result.report`
ResultFailed(result) == result.error # "" \/ result.report = Null

-----------------------------------------------------------------------------
(* Home and ReportDisplay *)

\* (variant: the lower limit is exclusive)
formSchemaExclusive(topic) == Len(topic) > MinTopicLen /\ Len(topic) <= MaxTopicLen

\* topic: z.string().min(3).max(100)
formSchema(topic) == Len(topic) >= MinTopicLen /\ Len(topic) <= MaxTopicLen

\* (variant: only the most recent entry is compared)
IncludesHead(hist, topic) == Len(hist) > 0 /\ hist[1] = topic

\* history.includes(topic)
Includes(hist, topic) == \E i \in 1..Len(hist) : hist[i] = topic

\* `report && !isLoading`: ReportDisplay is rendered
DisplayShown(rep, load) == rep # Null /\ ~load

\* `!isLoading && !report && history.length > 0`: the history list is rendered
HistoryShown(rep, load, hist) == ~load /\ rep = Null /\ Len(hist) > 0

Unmounted == [report |-> Null, section |-> NoSection, content |-> "", edits |-> 0]

\* ReportDisplay's state after Home rendered (rep1, load1) following
\* (rep0, load0): unmounted, mounted anew, or its effect on [report]
DisplayAfter(rep0, load0, rep1, load1, ed) ==
    IF ~DisplayShown(rep1, load1) THEN Unmounted
    ELSE IF ~DisplayShown(rep0, load0) THEN [Unmounted EXCEPT !.report = rep1]
    ELSE IF rep1 # rep0 THEN [ed EXCEPT !.report = rep1]
    ELSE ed

Display == [report |-> editableReport, section |-> editingSection,
            content |-> editContent, edits |-> edits]

SetDisplay(ed) ==
    /\ editableReport' = ed.report
    /\ editingSection' = ed.section
    /\ editContent' = ed.content
    /\ edits' = ed.edits

\* document.documentElement.classList.toggle(name, force)
ClassToggle(classes, name, force) ==
    IF force THEN classes \cup {name} ELSE classes \ {name}

\* (variant: only the class 'dark' is switched)
ThemeEffectDarkOnly(classes, th) == ClassToggle(classes, "dark", th = Dark)

\* ThemeToggle's effect on [theme]
ThemeEffect(classes, th) ==
    LET isDark == th = Dark
    IN ClassToggle(ClassToggle(classes, "dark", isDark), "light", ~isDark)

-----------------------------------------------------------------------------
(* handleExportPdf: the file name *)

LowerCase == <<"a", "b", "c", "d", "e", "f", "g", "h", "i", "j", "k", "l", "m",
               "n", "o", "p", "q", "r", "s", "t", "u", "v", "w", "x", "y", "z">>
UpperCase == <<"A", "B", "C", "D", "E", "F", "G", "H", "I", "J", "K", "L", "M",
               "N", "O", "P", "Q", "R", "S", "T", "U", "V", "W", "X", "Y", "Z">>
Digits == {"0", "1", "2", "3", "4", "5", "6", "7", "8", "9"}

\* \w of a regular expression
IsWordChar(c) == c \in Range(LowerCase) \cup Range(UpperCase) \cup Digits \cup {"_"}

\* char.toUpperCase()
toUpperCase(c) ==
    IF c \in Range(LowerCase)
    THEN UpperCase[CHOOSE i \in 1..Len(LowerCase) : LowerCase[i] = c]
    ELSE c

\* \b before a \w: the start of the text, or a character that is not \w
AtWordBoundary(title, i) == i = 1 \/ ~IsWordChar(title[i - 1])

\* (variant: only the first character of the title is upper-cased)
capitalizeTitleFirst(title) ==
    [i \in 1..Len(title) |-> IF i = 1 THEN toUpperCase(title[i]) ELSE title[i]]

\* title.replace(/\b\w/g, char => char.toUpperCase()), '' for no title
capitalizeTitle(title) ==
    [i \in 1..Len(title) |->
        IF IsWordChar(title[i]) /\ AtWordBoundary(title, i)
        THEN toUpperCase(title[i])
        ELSE title[i]]

\* topicTitle.replace(/ /g, '_')
ReplaceSpaces(text) == [i \in 1..Len(text) |-> IF text[i] = " " THEN "_" ELSE text[i]]

FileNamePrefix == <<"I", "n", "s", "i", "g", "h", "t", "F", "o", "r", "g", "e", "_",
                    "R", "e", "p", "o", "r", "t", "_">>
Untitled == <<"U", "n", "t", "i", "t", "l", "e", "d">>
DotPdf == <<".", "p", "d", "f">>

\* `InsightForge_Report_${topicTitle.replace(/ /g, '_') || 'Untitled'}.pdf`
FileName(topic) ==
    LET topicTitle == capitalizeTitle(topic)
        replaced == ReplaceSpaces(topicTitle)
    IN FileNamePrefix \o (IF replaced = <<>> THEN Untitled ELSE replaced) \o DotPdf

\* topics the form field can hold when Export is clicked
TopicEmpty == <<>>
TopicApostrophe == <<"i", "t", "'", "s">>
TopicTwoWords == <<"a", "i", " ", "l", "a", "w">>
ExportTopics == {TopicEmpty, TopicApostrophe, TopicTwoWords, TopicMin}

-----------------------------------------------------------------------------
(* handleExportPdf: the document.  What is drawn is kept as a sequence of   *)
(* items, each with its page and its y.                                     *)

Item(kind, section, line, page, ypos) ==
    [kind |-> kind, section |-> section, line |-> line, page |-> page, y |-> ypos]

\* the document and the two variables the page helpers work on
Doc(items, page, ypos) == [items |-> items, pageNum |-> page, y |-> ypos]

\* pdf.text(`Page ${pageNum}`, ..., pageHeight - 10)
addPageHeaderAndFooter(d) ==
    [d EXCEPT !.items = Append(@, Item("footer", NoSection, 0, d.pageNum, pageHeight - 10))]

\* pdf.addPage(); pageNum++; y = pageMargin; addPageHeaderAndFooter()
addPageWithHeaderFooter(d) ==
    addPageHeaderAndFooter([d EXCEPT !.pageNum = @ + 1, !.y = pageMargin])

\* the title page: the topic, the subtitle, a rule, the date line (their y
\* in whole mm)
TitlePage ==
    <<Item("title", NoSection, 0, 1, (pageHeight \div 2) - 20),
      Item("subtitle", NoSection, 0, 1, pageHeight \div 2),
      Item("titleRule", NoSection, 0, 1, (pageHeight \div 2) + 10),
      Item("date", NoSection, 0, 1, pageHeight - 20)>>

\* (variant: the room of the heading and its rule only)
HeadingNeedsPageRuleOnly(ypos) == ypos + headingAdvance + ruleAdvance > pageHeight - pageMargin

\* if (y + 25 > pageHeight - pageMargin)
HeadingNeedsPage(ypos) == ypos + headingRoom > pageHeight - pageMargin

\* (variant: the height of the line is not counted)
LineNeedsPageNoHeight(ypos) == ypos > pageHeight - pageMargin

\* if (y + lineHeight > pageHeight - pageMargin)
LineNeedsPage(ypos) == ypos + lineHeight > pageHeight - pageMargin

\* the locals of handleExportPdf while no call is running
ExportIdle ==
    /\ exportPc = "idle"
    /\ fileName = <<>>
    /\ pdf = <<>>
    /\ pageNum = 0
    /\ y = 0
    /\ sectionIdx = 0
    /\ lineIdx = 0

-----------------------------------------------------------------------------
(* Initial state: the first render, before any effect has run *)

\* what earlier visits can have left in localStorage
InitHistoryItems == {JsonArray(<<TopicMax, TopicMin>>), JsonArray(<<TopicMax, TopicOld>>)}
InitStorages ==
    {[k \in {} |-> <<>>]}
    \cup {[k \in {HistoryKey} |-> h] : h \in InitHistoryItems}

FirstRender ==
    /\ phase = "rendered"
    /\ report = Null
    /\ isLoading = FALSE
    /\ history = <<>>
    /\ topicField = <<>>
    /\ topicError = FALSE
    /\ pending = {}
    /\ settled = Null
    /\ toast = "none"
    /\ editableReport = Null
    /\ editingSection = NoSection
    /\ editContent = ""
    /\ edits = 0
    /\ theme = Light
    /\ docClass = {}
    /\ ExportIdle
    /\ wrapped = [s \in Sections |-> 0]
    /\ saved = Null

Init ==
    /\ FirstRender
    /\ storage \in InitStorages
    /\ storageFault = "none"

InitTheme ==
    /\ FirstRender
    /\ storage \in InitStorages
                   \cup {SetItem(st, ThemeKey, JsonString(Dark)) : st \in InitStorages}
    /\ storageFault = "none"

\* an item that JSON.parse throws on
CorruptItem == <<"[", "\"">>
StorageFaults == {"none", "getItem", "setItem"}

\* a browser whose storage may throw, or hold an item that is not JSON
InitStorageFaults ==
    /\ FirstRender
    /\ storage \in InitStorages \cup {[k \in {HistoryKey} |-> CorruptItem]}
    /\ storageFault \in StorageFaults

-----------------------------------------------------------------------------
(* Mount and reload *)

\* the effects after the first render: both hooks read their key; a value
\* read re-renders the component, whose write and theme effects run again
MountEffects ==
    /\ phase = "rendered"
    /\ LET th == ReadEffect(storage, ThemeKey, theme)
           hist == ReadEffect(storage, HistoryKey, history)
           st1 == ThemeRendered(storage, th)
       IN /\ theme' = th
          /\ docClass' = ThemeEffect(ThemeEffect(docClass, theme), th)
          /\ history' = hist
          /\ storage' = IF ReadSetsState(storage, HistoryKey)
                        THEN HomeRendered(st1, hist)
                        ELSE st1
    /\ phase' = "mounted"
    /\ UNCHANGED <<report, isLoading, topicField, topicError, pending, settled, toast>>
    /\ UNCHANGED editVars
    /\ UNCHANGED exportVars
    /\ UNCHANGED storageFault

\* the page is loaded again: the in-memory state is gone, localStorage stays
Reload ==
    /\ phase = "mounted"
    /\ phase' = "rendered"
    /\ report' = Null
    /\ isLoading' = FALSE
    /\ history' = <<>>
    /\ topicField' = <<>>
    /\ topicError' = FALSE
    /\ pending' = {}
    /\ settled' = Null
    /\ toast' = "none"
    /\ SetDisplay(Unmounted)
    /\ theme' = Light
    /\ docClass' = {}
    /\ UNCHANGED storage
    /\ UNCHANGED exportVars
    /\ UNCHANGED storageFault

-----------------------------------------------------------------------------
(* Home: the form, the request, the history list *)

\* the user types into the topic input
SetTopic(t) ==
    /\ phase = "mounted"
    /\ t # topicField
    /\ topicField' = t
    /\ UNCHANGED <<phase, report, isLoading, history, topicError, pending, settled,
                   storage, toast>>
    /\ UNCHANGED editVars
    /\ UNCHANGED themeVars
    /\ UNCHANGED exportVars
    /\ UNCHANGED storageFault

\* (variant: the report on screen is not discarded when a request starts)
onSubmitKeepsReport(topic) ==
    /\ isLoading' = TRUE
    /\ report' = report
    /\ topicError' = FALSE
    /\ pending' = pending \cup {[topic |-> topic, history |-> history]}
    /\ SetDisplay(DisplayAfter(report, isLoading, report, TRUE, Display))
    /\ storage' = HomeRendered(storage, history)
    /\ UNCHANGED <<phase, history, settled, toast>>
    /\ UNCHANGED themeVars
    /\ UNCHANGED exportVars
    /\ UNCHANGED storageFault

\* onSubmit up to its await
onSubmit(topic) ==
    /\ isLoading' = TRUE
    /\ report' = Null
    /\ topicError' = FALSE
    /\ pending' = pending \cup {[topic |-> topic, history |-> history]}
    /\ SetDisplay(DisplayAfter(report, isLoading, Null, TRUE, Display))
    /\ storage' = HomeRendered(storage, history)
    /\ UNCHANGED <<phase, history, settled, toast>>
    /\ UNCHANGED themeVars
    /\ UNCHANGED exportVars
    /\ UNCHANGED storageFault

\* (variant: the submit button is not disabled while a request is awaited)
SubmitFormWhileLoading ==
    /\ phase = "mounted"
    /\ IF formSchema(topicField)
       THEN /\ onSubmit(topicField)
            /\ UNCHANGED topicField
       ELSE /\ topicError' = TRUE
            /\ UNCHANGED <<phase, report, isLoading, history, topicField, pending,
                           settled, storage, toast>>
            /\ UNCHANGED editVars
            /\ UNCHANGED themeVars
            /\ UNCHANGED exportVars
            /\ UNCHANGED storageFault

\* the form is submitted (the submit button is disabled while isLoading):
\* form.handleSubmit validates, then calls onSubmit or shows the message
SubmitForm ==
    /\ phase = "mounted"
    /\ ~isLoading
    /\ IF formSchema(topicField)
       THEN /\ onSubmit(topicField)
            /\ UNCHANGED topicField
       ELSE /\ topicError' = TRUE
            /\ UNCHANGED <<phase, report, isLoading, history, topicField, pending,
                           settled, storage, toast>>
            /\ UNCHANGED editVars
            /\ UNCHANGED themeVars
            /\ UNCHANGED exportVars
            /\ UNCHANGED storageFault

\* (variant: the clicked topic is not put into the form field)
handleSelectTopicOnly(i) ==
    /\ phase = "mounted"
    /\ HistoryShown(report, isLoading, history)
    /\ i \in 1..Len(history)
    /\ UNCHANGED topicField
    /\ onSubmit(history[i])

\* a topic of the history list is clicked: form.setValue, then onSubmit
handleSelectTopic(i) ==
    /\ phase = "mounted"
    /\ HistoryShown(report, isLoading, history)
    /\ i \in 1..Len(history)
    /\ topicField' = history[i]
    /\ onSubmit(history[i])

\* (variant: the topic is added at the end)
HistoryAfterAtEnd(current, captured, topic) ==
    IF ~Includes(captured, topic) THEN captured \o <<topic>> ELSE current

\* (variant: the topic is added without looking for it)
HistoryAfterAlways(current, captured, topic) == <<topic>> \o captured

\* (variant: the earlier entries are not carried over)
HistoryAfterAlone(current, captured, topic) ==
    IF ~Includes(captured, topic) THEN <<topic>> ELSE current

\* `if (!history.includes(topic)) setHistory([topic, ...history])`, where
\* history is the list of the render in which onSubmit was called
HistoryAfter(current, captured, topic) ==
    IF ~Includes(captured, topic) THEN <<topic>> \o captured ELSE current

\* onSubmit after its await, for request r and what the model call gave
Completion(r, outcome) ==
    /\ phase = "mounted"
    /\ r \in pending
    /\ LET result == handleGenerateReport(outcome)
           rep == IF ResultFailed(result) THEN report ELSE result.report
           hist == IF ResultFailed(result) THEN history
                   ELSE HistoryAfter(history, r.history, r.topic)
       IN /\ toast' = IF ResultFailed(result) THEN "Error Generating Report" ELSE toast
          /\ report' = rep
          /\ history' = hist
          /\ isLoading' = FALSE
          /\ SetDisplay(DisplayAfter(report, isLoading, rep, FALSE, Display))
          /\ storage' = HomeRendered(storage, hist)
    /\ pending' = pending \ {r}
    /\ settled' = [topic |-> r.topic, history |-> r.history, outcome |-> outcome]
    /\ UNCHANGED <<phase, topicField, topicError>>
    /\ UNCHANGED themeVars
    /\ UNCHANGED exportVars
    /\ UNCHANGED storageFault

\* the awaited handleGenerateReport call rejects (the request to the server
\* action fails): onSubmit has no try around the await, so the rest of it,
\* setIsLoading(false) included, does not run, and no state is set
Rejection(r) ==
    /\ phase = "mounted"
    /\ r \in pending
    /\ pending' = pending \ {r}
    /\ UNCHANGED <<phase, report, isLoading, history, topicField, topicError, settled,
                   storage, toast>>
    /\ UNCHANGED editVars
    /\ UNCHANGED themeVars
    /\ UNCHANGED exportVars
    /\ UNCHANGED storageFault

handleClearHistory ==
    /\ phase = "mounted"
    /\ HistoryShown(report, isLoading, history)
    /\ history' = <<>>
    /\ toast' = "History cleared."
    /\ storage' = HomeRendered(storage, <<>>)
    /\ UNCHANGED <<phase, report, isLoading, topicField, topicError, pending, settled>>
    /\ UNCHANGED editVars
    /\ UNCHANGED themeVars
    /\ UNCHANGED exportVars
    /\ UNCHANGED storageFault

-----------------------------------------------------------------------------
(* ReportDisplay: one section at a time is edited through one buffer *)

\* `report[sectionKey] &&`: the section is rendered
SectionShown(s) == DisplayShown(report, isLoading) /\ report[s] # ""

\* (variant: the buffer of the section left behind is put into its field)
handleEditClickCommits(s) ==
    /\ phase = "mounted"
    /\ SectionShown(s)
    /\ editingSection # s
    /\ editingSection' = s
    /\ editContent' = editableReport[s]
    /\ editableReport' = IF editingSection = NoSection THEN editableReport
                         ELSE [editableReport EXCEPT ![editingSection] = editContent]
    /\ UNCHANGED edits
    /\ UNCHANGED <<phase, storage>>
    /\ UNCHANGED homeVars
    /\ UNCHANGED themeVars
    /\ UNCHANGED exportVars
    /\ UNCHANGED storageFault

\* the Edit button of a section that is shown and not being edited
handleEditClick(s) ==
    /\ phase = "mounted"
    /\ SectionShown(s)
    /\ editingSection # s
    /\ editingSection' = s
    /\ editContent' = editableReport[s]
    /\ UNCHANGED <<editableReport, edits>>
    /\ UNCHANGED <<phase, storage>>
    /\ UNCHANGED homeVars
    /\ UNCHANGED themeVars
    /\ UNCHANGED exportVars
    /\ UNCHANGED storageFault

\* the user types into the textarea of the section being edited
ChangeEditContent(t) ==
    /\ phase = "mounted"
    /\ editingSection # NoSection
    /\ SectionShown(editingSection)
    /\ t # editContent
    /\ editContent' = t
    /\ UNCHANGED <<editableReport, editingSection, edits>>
    /\ UNCHANGED <<phase, storage>>
    /\ UNCHANGED homeVars
    /\ UNCHANGED themeVars
    /\ UNCHANGED exportVars
    /\ UNCHANGED storageFault

\* (variant: the other fields are not carried over)
UpdatedReportAlone(rep, s, text) == [o \in Sections |-> IF o = s THEN text ELSE ""]

\* { ...editableReport, [editingSection]: editContent }
UpdatedReport(rep, s, text) == [rep EXCEPT ![s] = text]

\* (variant: Save also keeps the report in the storage)
handleSaveClickPersists ==
    /\ phase = "mounted"
    /\ editingSection # NoSection
    /\ SectionShown(editingSection)
    /\ edits < MaxSaves
    /\ LET updatedReport == UpdatedReport(editableReport, editingSection, editContent)
       IN /\ report' = updatedReport
          /\ toast' = "Report updated."
          /\ SetDisplay(DisplayAfter(report, isLoading, updatedReport, isLoading,
                                     [report |-> updatedReport, section |-> NoSection,
                                      content |-> editContent, edits |-> edits + 1]))
    /\ storage' = SetItem(HomeRendered(storage, history), "report",
                          JsonString(<<"s", "a", "v", "e", "d">>))
    /\ UNCHANGED <<phase, isLoading, history, topicField, topicError, pending, settled>>
    /\ UNCHANGED themeVars
    /\ UNCHANGED exportVars
    /\ UNCHANGED storageFault

\* Save: the updated report goes to the local state and, through
\* handleReportUpdate, to Home, which re-renders
handleSaveClick ==
    /\ phase = "mounted"
    /\ editingSection # NoSection
    /\ SectionShown(editingSection)
    /\ edits < MaxSaves
    /\ LET updatedReport == UpdatedReport(editableReport, editingSection, editContent)
       IN /\ report' = updatedReport
          /\ toast' = "Report updated."
          /\ SetDisplay(DisplayAfter(report, isLoading, updatedReport, isLoading,
                                     [report |-> updatedReport, section |-> NoSection,
                                      content |-> editContent, edits |-> edits + 1]))
    /\ storage' = HomeRendered(storage, history)
    /\ UNCHANGED <<phase, isLoading, history, topicField, topicError, pending, settled>>
    /\ UNCHANGED themeVars
    /\ UNCHANGED exportVars
    /\ UNCHANGED storageFault

\* (variant: Cancel puts the buffer into the local report)
handleCancelClickCommits ==
    /\ phase = "mounted"
    /\ editingSection # NoSection
    /\ SectionShown(editingSection)
    /\ editingSection' = NoSection
    /\ editableReport' = [editableReport EXCEPT ![editingSection] = editContent]
    /\ UNCHANGED <<editContent, edits>>
    /\ UNCHANGED <<phase, storage>>
    /\ UNCHANGED homeVars
    /\ UNCHANGED themeVars
    /\ UNCHANGED exportVars
    /\ UNCHANGED storageFault

handleCancelClick ==
    /\ phase = "mounted"
    /\ editingSection # NoSection
    /\ SectionShown(editingSection)
    /\ editingSection' = NoSection
    /\ UNCHANGED <<editableReport, editContent, edits>>
    /\ UNCHANGED <<phase, storage>>
    /\ UNCHANGED homeVars
    /\ UNCHANGED themeVars
    /\ UNCHANGED exportVars
    /\ UNCHANGED storageFault

-----------------------------------------------------------------------------
(* ThemeToggle *)

toggleTheme ==
    /\ phase = "mounted"
    /\ LET th == IF theme = Dark THEN Light ELSE Dark
       IN /\ theme' = th
          /\ docClass' = ThemeEffect(docClass, th)
          /\ storage' = ThemeRendered(storage, th)
    /\ UNCHANGED phase
    /\ UNCHANGED homeVars
    /\ UNCHANGED editVars
    /\ UNCHANGED exportVars
    /\ UNCHANGED storageFault

-----------------------------------------------------------------------------
(* handleExportPdf, one step at a time.  The handler is synchronous: while  *)
(* it runs nothing else does.                                               *)

\* the call ends: its locals are gone
ExportReturns ==
    /\ exportPc' = "idle"
    /\ fileName' = <<>>
    /\ pdf' = <<>>
    /\ pageNum' = 0
    /\ y' = 0
    /\ sectionIdx' = 0
    /\ lineIdx' = 0

\* nothing of the page's state is set by the handler
ExportFrame ==
    /\ UNCHANGED <<phase, storage, storageFault, wrapped>>
    /\ UNCHANGED <<report, isLoading, history, topicField, topicError, pending, settled>>
    /\ UNCHANGED editVars
    /\ UNCHANGED themeVars

\* the handler is called (by the Export button of the display, which is
\* there with a report only): the guard, the file name, the first toast
handleExportPdf ==
    /\ phase = "mounted"
    /\ exportPc = "idle"
    /\ IF report = Null
       THEN /\ toast' = "Error"
            /\ UNCHANGED exportLocals
       ELSE /\ toast' = "Exporting PDF..."
            /\ fileName' = FileName(topicField)
            /\ exportPc' = "title"
            /\ UNCHANGED <<pdf, pageNum, y, sectionIdx, lineIdx>>
    /\ UNCHANGED saved
    /\ ExportFrame

\* (variant: the sections start on the title page)
ExportTitlePageOnly ==
    /\ exportPc = "title"
    /\ LET d == Doc(TitlePage, 1, pageMargin)
       IN /\ pdf' = d.items
          /\ pageNum' = d.pageNum
          /\ y' = d.y
    /\ sectionIdx' = 1
    /\ exportPc' = "section"
    /\ UNCHANGED <<fileName, lineIdx, saved, toast>>
    /\ ExportFrame

\* new jsPDF, y = pageMargin, pageNum = 1, the title page, then
\* addPageWithHeaderFooter() for the content
ExportTitlePage ==
    /\ exportPc = "title"
    /\ LET d == addPageWithHeaderFooter(Doc(TitlePage, 1, pageMargin))
       IN /\ pdf' = d.items
          /\ pageNum' = d.pageNum
          /\ y' = d.y
    /\ sectionIdx' = 1
    /\ exportPc' = "section"
    /\ UNCHANGED <<fileName, lineIdx, saved, toast>>
    /\ ExportFrame

\* sectionOrder.forEach: a section whose text is empty is passed over
ExportSkipSection ==
    /\ exportPc = "section"
    /\ sectionIdx <= Len(sectionOrder)
    /\ report[sectionOrder[sectionIdx]] = ""
    /\ sectionIdx' = sectionIdx + 1
    /\ UNCHANGED <<exportPc, fileName, pdf, pageNum, y, lineIdx, saved, toast>>
    /\ ExportFrame

\* a section with text: a new page if the heading asks for it, the heading,
\* y += 7, the rule, y += 8
ExportHeading ==
    /\ exportPc = "section"
    /\ sectionIdx <= Len(sectionOrder)
    /\ report[sectionOrder[sectionIdx]] # ""
    /\ LET s == sectionOrder[sectionIdx]
           d0 == Doc(pdf, pageNum, y)
           d == IF HeadingNeedsPage(y) THEN addPageWithHeaderFooter(d0) ELSE d0
       IN /\ pdf' = d.items \o <<Item("heading", s, 0, d.pageNum, d.y),
                                 Item("rule", s, 0, d.pageNum, d.y + headingAdvance)>>
          /\ pageNum' = d.pageNum
          /\ y' = d.y + headingAdvance + ruleAdvance
    /\ lineIdx' = 1
    /\ exportPc' = "lines"
    /\ UNCHANGED <<fileName, sectionIdx, saved, toast>>
    /\ ExportFrame

\* (variant: the line that meets the page end is lost to the page break)
ExportLineLostAtBreak ==
    /\ exportPc = "lines"
    /\ lineIdx <= wrapped[sectionOrder[sectionIdx]]
    /\ LET s == sectionOrder[sectionIdx]
           d0 == Doc(pdf, pageNum, y)
       IN IF LineNeedsPage(y)
          THEN LET d == addPageWithHeaderFooter(d0)
               IN pdf' = d.items /\ pageNum' = d.pageNum /\ y' = d.y
          ELSE /\ pdf' = Append(pdf, Item("line", s, lineIdx, pageNum, y))
               /\ pageNum' = pageNum
               /\ y' = y + lineHeight
    /\ lineIdx' = lineIdx + 1
    /\ UNCHANGED <<exportPc, fileName, sectionIdx, saved, toast>>
    /\ ExportFrame

\* contentLines.forEach: a new page if the line asks for it, the line,
\* y += lineHeight
ExportLine ==
    /\ exportPc = "lines"
    /\ lineIdx <= wrapped[sectionOrder[sectionIdx]]
    /\ LET s == sectionOrder[sectionIdx]
           d0 == Doc(pdf, pageNum, y)
           d == IF LineNeedsPage(y) THEN addPageWithHeaderFooter(d0) ELSE d0
       IN /\ pdf' = Append(d.items, Item("line", s, lineIdx, d.pageNum, d.y))
          /\ pageNum' = d.pageNum
          /\ y' = d.y + lineHeight
    /\ lineIdx' = lineIdx + 1
    /\ UNCHANGED <<exportPc, fileName, sectionIdx, saved, toast>>
    /\ ExportFrame

\* after the last line of a section: y += 10, the next section
ExportEndSection ==
    /\ exportPc = "lines"
    /\ lineIdx > wrapped[sectionOrder[sectionIdx]]
    /\ y' = y + sectionGap
    /\ sectionIdx' = sectionIdx + 1
    /\ exportPc' = "section"
    /\ UNCHANGED <<fileName, pdf, pageNum, lineIdx, saved, toast>>
    /\ ExportFrame

\* pdf.save(fileName) and the last toast
ExportSave ==
    /\ exportPc = "section"
    /\ sectionIdx > Len(sectionOrder)
    /\ saved' = [fileName |-> fileName, pages |-> pageNum, items |-> pdf]
    /\ toast' = "Export complete!"
    /\ ExportReturns
    /\ ExportFrame

\* (variant: the catch also drops the report)
ExportThrowsDropsReport ==
    /\ exportPc # "idle"
    /\ toast' = "PDF Export Failed"
    /\ report' = Null
    /\ ExportReturns
    /\ UNCHANGED saved
    /\ UNCHANGED <<phase, storage, storageFault, wrapped>>
    /\ UNCHANGED <<isLoading, history, topicField, topicError, pending, settled>>
    /\ UNCHANGED editVars
    /\ UNCHANGED themeVars

\* a jsPDF call inside the try throws: the catch shows the toast
ExportThrows ==
    /\ exportPc # "idle"
    /\ toast' = "PDF Export Failed"
    /\ ExportReturns
    /\ UNCHANGED saved
    /\ ExportFrame

-----------------------------------------------------------------------------
(* Specifications *)

HomeNext ==
    \/ MountEffects
    \/ Reload
    \/ \E t \in FormInputs : SetTopic(t)
    \/ SubmitForm
    \/ \E i \in 1..Len(history) : handleSelectTopic(i)
    \/ \E r \in pending, outcome \in ModelOutcomes : Completion(r, outcome)
    \/ \E r \in pending : Rejection(r)
    \/ handleClearHistory

EditNext ==
    \/ \E s \in Sections : handleEditClick(s)
    \/ \E t \in EditTexts : ChangeEditContent(t)
    \/ handleSaveClick
    \/ handleCancelClick

Next == HomeNext \/ EditNext

\* the page with its report editor
Spec == Init /\ [][Next]_vars

NextTheme == HomeNext \/ toggleTheme

\* the page with its theme toggle
SpecTheme == InitTheme /\ [][NextTheme]_vars

\* reports Export can be clicked on: all sections with text, some without
\* (an edit can save an empty text), none with text
ReportGaps == [ReportFull EXCEPT !.history = "", !.currentTrends = ""]
ExportReports == {ReportFull, ReportGaps, ReportBlank}

\* what pdf.splitTextToSize can make of the texts of a report: one line of
\* each text, or 1 to MaxLines lines of one of them
Wrappings(rep) ==
    {[s \in Sections |-> IF rep[s] = "" THEN 0 ELSE IF s = long THEN n ELSE 1] :
        long \in Sections, n \in 1..MaxLines}

\* the page with a report on it, generated for TopicMin and edited or not
\* (or, for the handler's guard, without one), the form field as typed
\* since, and no export running
InitExport ==
    /\ phase = "mounted"
    /\ report \in ExportReports \cup {Null}
    /\ wrapped \in (IF report = Null THEN {[s \in Sections |-> 0]} ELSE Wrappings(report))
    /\ topicField \in ExportTopics
    /\ isLoading = FALSE
    /\ history = IF report = Null THEN <<>> ELSE <<TopicMin>>
    /\ storage = [k \in {HistoryKey} |-> JsonArray(history)]
    /\ storageFault = "none"
    /\ topicError = FALSE
    /\ pending = {}
    /\ settled = IF report = Null THEN Null
                 ELSE [topic |-> TopicMin, history |-> <<>>,
                       outcome |-> [threw |-> FALSE,
                                    output |-> [report |-> IF report = ReportBlank
                                                           THEN ReportBlank
                                                           ELSE ReportFull]]]
    /\ toast = "none"
    /\ editableReport = report
    /\ editingSection = NoSection
    /\ editContent = ""
    /\ edits = 0
    /\ theme = Light
    /\ docClass = ThemeEffect({}, Light)
    /\ ExportIdle
    /\ saved = Null

ExportNext ==
    \/ handleExportPdf
    \/ ExportTitlePage
    \/ ExportSkipSection
    \/ ExportHeading
    \/ ExportLine
    \/ ExportEndSection
    \/ ExportSave
    \/ ExportThrows

\* the page in a browser whose storage fails
SpecStorageFaults == InitStorageFaults /\ [][HomeNext]_vars

\* the PDF export of a page with a report
SpecExport == InitExport /\ [][ExportNext]_vars

-----------------------------------------------------------------------------
(* Properties *)

\* the onSubmit call that returned last got a report
SettledOk == settled # Null /\ ~ResultFailed(handleGenerateReport(settled.outcome))

\* C1: a form submission starts a generation request for the topic exactly
\* when the topic has 3 to 100 characters; any other topic is rejected with
\* the validation message, no request is made, and report, loading flag and
\* history stay as they are.
C1_SubmitAcceptsLength3To100 ==
    [][SubmitForm =>
        IF Len(topicField) >= 3 /\ Len(topicField) <= 100
        THEN /\ pending' = pending \cup {[topic |-> topicField, history |-> history]}
             /\ isLoading'
        ELSE /\ pending' = pending
             /\ report' = report
             /\ isLoading' = isLoading
             /\ history' = history
             /\ topicError']_vars

\* a request for a topic of exactly 100 characters is under way
C1_Witness == \E r \in pending : Len(r.topic) = 100

\* C2: when a generation succeeds for a topic that is already anywhere in
\* the history, the history stays exactly as it was.
C2_AppendIdempotent ==
    [][\A r \in pending, outcome \in ModelOutcomes :
          (/\ Completion(r, outcome)
           /\ ~ResultFailed(handleGenerateReport(outcome))
           /\ r.topic \in Range(history))
          => history' = history]_vars

\* a generation succeeded for a topic that was in the history, not at its head
C2_Witness ==
    /\ SettledOk
    /\ Len(settled.history) >= 2
    /\ settled.topic \in Range(settled.history)
    /\ settled.topic # settled.history[1]
    /\ history = settled.history

\* C3: the history, loaded from a stored list without duplicates, never
\* holds the same topic twice.
C3_NoDuplicateTopics ==
    \A i, j \in 1..Len(history) : i # j => history[i] # history[j]

\* a generation succeeded for a topic of a history of two entries
C3_Witness ==
    /\ SettledOk
    /\ settled.topic \in Range(settled.history)
    /\ Len(history) = 2
    /\ report # Null

\* C4: a topic whose generation succeeded is in the history right after,
\* and no step other than clearing the history (or leaving the page) takes
\* an entry out of it.
C4_EntriesStayUntilClear ==
    [][/\ \A r \in pending, outcome \in ModelOutcomes :
            (Completion(r, outcome) /\ ~ResultFailed(handleGenerateReport(outcome)))
            => r.topic \in Range(history')
       /\ (~handleClearHistory /\ ~Reload) => Range(history) \subseteq Range(history')]_vars

\* a generation succeeded for a new topic and the earlier entry is still there
C4_Witness ==
    /\ SettledOk
    /\ Len(settled.history) >= 1
    /\ settled.topic \notin Range(settled.history)
    /\ history = <<settled.topic>> \o settled.history

\* C5: clearing the history leaves the empty list in memory and the text
\* "[]" under the history key, from which the mount effect of a later load
\* reads the empty list.
C5_ClearYieldsEmptyPersisted ==
    [][/\ handleClearHistory =>
            /\ history' = <<>>
            /\ HasItem(storage', HistoryKey)
            /\ storage'[HistoryKey] = <<"[", "]">>
       /\ (/\ MountEffects
           /\ HasItem(storage, HistoryKey)
           /\ storage[HistoryKey] = <<"[", "]">>)
          => history' = <<>>]_vars

\* the history was cleared and "[]" is stored
C5_Witness ==
    /\ phase = "mounted"
    /\ toast = "History cleared."
    /\ history = <<>>
    /\ HasItem(storage, HistoryKey)
    /\ storage[HistoryKey] = <<"[", "]">>

\* C6: when the page is reloaded, the list the mount effect reads from the
\* storage is the history held in memory before the reload.
C6_HistorySurvivesReload ==
    [][Reload => ReadEffect(storage', HistoryKey, history') = history]_vars

\* after a reload, the history holds a topic generated before it
\* (the first visit found no stored list, or one of two entries)
C6_Witness ==
    /\ phase = "mounted"
    /\ settled = Null
    /\ pending = {}
    /\ history = <<TopicMin>>

\* C7 (as claimed): once mounted, the theme a reload would read from the
\* storage is the theme in memory.
C7_ThemePersisted ==
    phase = "mounted" => ReadEffect(storage, ThemeKey, Light) = theme

\* C8: Save puts the buffer's text into the field being edited, in the
\* display's report and in Home's, leaves the other five fields as they
\* were, and ends the editing.
C8_SaveReplacesOnlyThatField ==
    [][handleSaveClick =>
        /\ DOMAIN report' = Sections
        /\ report'[editingSection] = editContent
        /\ editableReport'[editingSection] = editContent
        /\ \A o \in Sections \ {editingSection} :
              report'[o] = report[o] /\ editableReport'[o] = editableReport[o]
        /\ editingSection' = NoSection]_vars

\* typed text was saved into a field of the generated report
C8_Witness ==
    /\ toast = "Report updated."
    /\ edits = 1
    /\ editingSection = NoSection
    /\ \E s \in Sections : report = [ReportFull EXCEPT ![s] = "typed"]

\* C9: starting an edit, typing into the buffer and canceling leave the
\* display's report and Home's report as they were and show no
\* notification; Cancel ends the editing.
C9_CancelLeavesReport ==
    [][/\ (\/ \E s \in Sections : handleEditClick(s)
           \/ \E t \in EditTexts : ChangeEditContent(t)
           \/ handleCancelClick)
          => report' = report /\ editableReport' = editableReport /\ toast' = toast
       /\ handleCancelClick => editingSection' = NoSection]_vars

\* an edit with typed text was canceled: nothing was saved
C9_Witness ==
    /\ DisplayShown(report, isLoading)
    /\ editingSection = NoSection
    /\ editContent = "typed"
    /\ edits = 0
    /\ report = ReportFull

\* C10: a report held in memory, by Home or by the display, has all six
\* fields; a response that lacks one is not stored.
C10_ReportHasSixFields ==
    /\ report # Null => DOMAIN report = Sections
    /\ editableReport # Null => DOMAIN editableReport = Sections

\* a response without futureScope came back and no report is held
C10_Witness ==
    /\ settled # Null
    /\ settled.outcome.output = [report |-> ReportPartial]
    /\ report = Null
    /\ toast = "Error Generating Report"

\* C11: when a generation request comes back with an error or without a
\* report, the error notification is shown, no report is held afterwards
\* (the one on screen before the submission is gone), the history in memory
\* is the one of the submission, the storage is not written to and holds
\* that same list, and no further request is made.
C11_FailureKeepsHistoryDropsReport ==
    [][\A r \in pending, outcome \in ModelOutcomes :
          (Completion(r, outcome) /\ ResultFailed(handleGenerateReport(outcome)))
          => /\ toast' = "Error Generating Report"
             /\ report' = Null
             /\ history' = history
             /\ history' = r.history
             /\ storage' = storage
             /\ ReadEffect(storage', HistoryKey, <<>>) = r.history
             /\ pending' = pending \ {r}
             /\ ~isLoading']_vars

\* a request made with two topics in the history failed
C11_Witness ==
    /\ settled # Null
    /\ ResultFailed(handleGenerateReport(settled.outcome))
    /\ toast = "Error Generating Report"
    /\ report = Null
    /\ Len(settled.history) = 2
    /\ history = settled.history
    /\ pending = {}
    /\ ~isLoading

\* C12 (as claimed): once no generation request is awaited any more, the
\* loading flag is off (and with it the submit button enabled), whichever
\* way the request ended.
C12_LoadingEndsWithRequest == pending = {} => ~isLoading

\* C13 (as claimed): while a generation request is pending, the form submit
\* or a history selection can start another one.
C13_SecondRequestWhilePending ==
    pending # {} =>
        ENABLED (SubmitForm \/ \E i \in 1..Len(history) : handleSelectTopic(i))

\* C13: at most one generation request is outstanding at any time: while
\* one is awaited the loading flag is set, which disables the submit button
\* and keeps the history list off the page.
C13_AtMostOneOutstanding ==
    /\ Cardinality(pending) <= 1
    /\ pending # {} => isLoading /\ ~HistoryShown(report, isLoading, history)

\* a request is awaited while the history has topics and another topic is typed
C13_Witness ==
    /\ Cardinality(pending) = 1
    /\ Len(history) > 0
    /\ \A r \in pending : r.topic # topicField /\ Len(topicField) >= 3

\* C14: no step of the export sets the report, the history, the loading
\* flag or the storage; a call without a report shows the error toast and
\* builds no document; a throwing library call ends in the failure toast
\* with no file saved; a file is saved only by the step that completes.
C14_ExportLeavesState ==
    [][/\ report' = report
       /\ history' = history
       /\ isLoading' = isLoading
       /\ storage' = storage
       /\ (handleExportPdf /\ report = Null)
          => toast' = "Error" /\ exportPc' = "idle" /\ pdf' = <<>> /\ saved' = saved
       /\ ExportThrows
          => toast' = "PDF Export Failed" /\ exportPc' = "idle" /\ saved' = saved
       /\ saved' # saved => toast' = "Export complete!"]_vars

\* an export failed after an earlier one had saved its file
C14_Witness ==
    /\ toast = "PDF Export Failed"
    /\ exportPc = "idle"
    /\ saved # Null
    /\ report # Null

TitleKinds == {"title", "subtitle", "titleRule", "date"}
ContentKinds == {"heading", "rule", "line"}

\* C15: a saved document starts with the title page, which holds the title
\* items and nothing of a section; it has a second page; and when all six
\* sections have text, each has its heading on a page after the first.
C15_TitlePageFirst ==
    saved # Null =>
        LET it == saved.items
        IN /\ Len(it) >= 1
           /\ it[1].kind = "title"
           /\ \A i \in 1..Len(it) : it[i].page = 1 <=> it[i].kind \in TitleKinds
           /\ \A k \in TitleKinds : \E i \in 1..Len(it) : it[i].kind = k
           /\ saved.pages >= 2
           /\ (\A s \in Sections : report[s] # "")
              => \A s \in Sections :
                    \E i \in 1..Len(it) :
                        it[i].kind = "heading" /\ it[i].section = s /\ it[i].page >= 2

\* a report without any text was exported: title page and one more page
C15_Witness ==
    /\ saved # Null
    /\ report = ReportBlank
    /\ saved.pages = 2

IsContent(it) == it.kind \in ContentKinds
Drawn(it) == [kind |-> it.kind, section |-> it.section, line |-> it.line]

\* heading, rule and the n wrapped lines of a section, as they should be drawn
Block(s, n) ==
    <<[kind |-> "heading", section |-> s, line |-> 0],
      [kind |-> "rule", section |-> s, line |-> 0]>>
    \o [k \in 1..n |-> [kind |-> "line", section |-> s, line |-> k]]

RECURSIVE BlocksFrom(_)
BlocksFrom(i) ==
    IF i > Len(sectionOrder) THEN <<>>
    ELSE (IF report[sectionOrder[i]] = "" THEN <<>>
          ELSE Block(sectionOrder[i], wrapped[sectionOrder[i]]))
         \o BlocksFrom(i + 1)

\* C16: what a saved document holds of the sections is, in this order, one
\* block for each section with text, in the fixed order of the sections,
\* each block its heading, its rule and every wrapped line once in order;
\* on paper too each item comes after the one before (a later page, or
\* further down the same page).
C16_OneBlockPerSection ==
    saved # Null =>
        LET c == SelectSeq(saved.items, IsContent)
        IN /\ [i \in 1..Len(c) |-> Drawn(c[i])] = BlocksFrom(1)
           /\ \A i \in 1..(Len(c) - 1) :
                 \/ c[i].page < c[i + 1].page
                 \/ c[i].page = c[i + 1].page /\ c[i].y < c[i + 1].y

\* a saved document in which the lines of a section go on at the top of the
\* next page
C16_Witness ==
    /\ saved # Null
    /\ \E i \in 1..Len(saved.items) :
          /\ saved.items[i].kind = "line"
          /\ saved.items[i].line > 1
          /\ saved.items[i].y = 20
          /\ saved.items[i].page >= 3

\* the first character of every word (a word ends at a space) upper-cased,
\* every space replaced by an underscore
TitleCaseBySpaces(topic) ==
    [i \in 1..Len(topic) |->
        IF topic[i] = " " THEN "_"
        ELSE IF i = 1 \/ topic[i - 1] = " " THEN toUpperCase(topic[i])
        ELSE topic[i]]

\* C17 (as claimed): the file name is 'InsightForge_Report_', then the topic
\* with the first letter of every word upper-cased and every space replaced
\* by an underscore ('Untitled' for the empty topic), then '.pdf'; it holds
\* no space.
C17_FileNameFromTopic ==
    exportPc # "idle" =>
        /\ fileName = FileNamePrefix
                      \o (IF topicField = <<>> THEN Untitled
                          ELSE TitleCaseBySpaces(topicField))
                      \o DotPdf
        /\ " " \notin Range(fileName)

\* C18: while the sections are laid out y is at least the top margin;
\* every heading is drawn at a y with y + 25 <= pageHeight - 20 and every
\* body line at a y with y + 8 <= pageHeight - 20; what is drawn first on a
\* page that was added sits at the top margin.
C18_LayoutWithinMargins ==
    /\ exportPc \in {"section", "lines"} => y >= 20
    /\ \A i \in 1..Len(pdf) :
          /\ pdf[i].kind = "heading" => pdf[i].y >= 20 /\ pdf[i].y + 25 <= 297 - 20
          /\ pdf[i].kind = "line" => pdf[i].y >= 20 /\ pdf[i].y + 8 <= 297 - 20
          /\ (pdf[i].kind = "footer" /\ i < Len(pdf))
             => pdf[i + 1].y = 20 /\ pdf[i + 1].page = pdf[i].page

\* a line was drawn at the lowest y there is room for, and the next one at
\* the top of a new page
C18_Witness ==
    \E i \in 1..(Len(pdf) - 2) :
        /\ pdf[i].kind = "line"
        /\ pdf[i].y + 8 = 297 - 20
        /\ pdf[i + 1].kind = "footer"
        /\ pdf[i + 2].kind = "line"
        /\ pdf[i + 2].y = 20
        /\ pdf[i + 2].page = pdf[i].page + 1

\* C19: the heading of a section is followed by its rule and by the first
\* wrapped line of its text on the same page.
C19_HeadingNotAlone ==
    LET c == SelectSeq(pdf, IsContent)
    IN \A i \in 1..Len(c) :
          c[i].kind = "heading" =>
              /\ i + 1 <= Len(c)
              /\ c[i + 1].kind = "rule"
              /\ c[i + 1].section = c[i].section
              /\ c[i + 1].page = c[i].page
              /\ i + 2 <= Len(c)
                 => /\ c[i + 2].kind = "line"
                    /\ c[i + 2].line = 1
                    /\ c[i + 2].section = c[i].section
                    /\ c[i + 2].page = c[i].page

\* a heading in the last 8 mm a heading is let into, with its first line
\* under it
C19_Witness ==
    LET c == SelectSeq(pdf, IsContent)
    IN \E i \in 1..(Len(c) - 2) :
          /\ c[i].kind = "heading"
          /\ c[i].y + 25 > 297 - 20 - 8
          /\ c[i + 2].kind = "line"
          /\ c[i + 2].page = c[i].page

\* C20 (as claimed): the loading flag is set exactly while a generation
\* request has been started and has not ended.
C20_LoadingIffOutstanding == isLoading <=> pending # {}

\* C21: when a generation succeeds for a topic that is not in the history,
\* the new history is that topic followed by the entries the history had
\* right before, in their order; it is longer by one.
C21_NewTopicAtHead ==
    [][\A r \in pending, outcome \in ModelOutcomes :
          (/\ Completion(r, outcome)
           /\ ~ResultFailed(handleGenerateReport(outcome))
           /\ r.topic \notin Range(history))
          => /\ history' = <<r.topic>> \o history
             /\ Len(history') = Len(history) + 1]_vars

\* a new topic was generated on top of the two of an earlier visit
C21_Witness ==
    /\ SettledOk
    /\ settled.history = <<TopicMax, TopicOld>>
    /\ history = <<settled.topic, TopicMax, TopicOld>>
    /\ settled.topic = TopicMin
    /\ report # Null

\* C22: a submission (by the form or from the history list) leaves exactly
\* one request outstanding, for the topic then standing in the form field,
\* and no report in memory; a report is in memory only when no request is
\* outstanding, and the one put there by a completion is the result of that
\* one request.
C22_ReportOfLastSubmission ==
    /\ [](report # Null => pending = {})
    /\ [][/\ (SubmitForm \/ \E i \in 1..Len(history) : handleSelectTopic(i))
              => \/ pending' = pending
                 \/ /\ pending' = {[topic |-> topicField', history |-> history]}
                    /\ report' = Null
           /\ \A r \in pending, outcome \in ModelOutcomes :
                 (Completion(r, outcome) /\ ~ResultFailed(handleGenerateReport(outcome)))
                 => /\ pending = {r}
                    /\ pending' = {}
                    /\ report' = outcome.output.report]_vars

\* the report on the page is that of a topic picked from the history list
\* after another topic had been typed into the form
C22_Witness ==
    /\ SettledOk
    /\ pending = {}
    /\ report = ReportFull
    /\ settled.topic = TopicOld
    /\ topicField = TopicOld
    /\ history = <<TopicMax, TopicOld>>

\* C23: one section at most is being edited (there is one editingSection
\* and one buffer): Edit on a section, also while another one is being
\* edited, makes it the section being edited, loads its current text into
\* the buffer and leaves the report, in the display and in Home, as it
\* was; with no section being edited there is no Save to click.
C23_SingleEditBuffer ==
    /\ [](editingSection \in Sections \cup {NoSection})
    /\ [](editingSection = NoSection => ~ENABLED handleSaveClick)
    /\ [][\A s \in Sections :
              handleEditClick(s)
              => /\ editingSection' = s
                 /\ editContent' = editableReport[s]
                 /\ editableReport' = editableReport
                 /\ report' = report]_vars

\* a section other than the first is being edited, its own text in the
\* buffer, and the report is as generated: nothing typed before was kept
C23_Witness ==
    /\ editingSection = "benefits"
    /\ editContent = "Bene"
    /\ editableReport = ReportFull
    /\ report = ReportFull
    /\ edits = 0
    /\ toast = "none"

\* C24 (as claimed): while the report is displayed, every one of its six
\* fields that is not being edited can be taken into editing, whatever its
\* text, the empty text included.
C24_EveryFieldEditable ==
    DisplayShown(report, isLoading) =>
        \A s \in Sections : editingSection # s => ENABLED handleEditClick(s)

\* C25: starting an edit, typing into the buffer, Save and Cancel leave the
\* history, the loading flag and everything in the storage as they were.
C25_EditsLeaveHistoryAndStorage ==
    [][(\/ \E s \in Sections : handleEditClick(s)
        \/ \E t \in EditTexts : ChangeEditContent(t)
        \/ handleSaveClick
        \/ handleCancelClick)
       => /\ history' = history
          /\ isLoading' = isLoading
          /\ storage' = storage]_vars

\* an edit was saved; the storage holds the history of the page and
\* nothing else
C25_Witness ==
    /\ toast = "Report updated."
    /\ edits = 1
    /\ Len(history) >= 1
    /\ DOMAIN storage = {HistoryKey}
    /\ storage[HistoryKey] = JsonArray(history)

\* C26 (as claimed): the file name of an export is made from the topic
\* whose generation produced the report on the page.
C26_ExportUsesReportTopic ==
    (exportPc # "idle" /\ settled # Null) => fileName = FileName(settled.topic)

\* a step that calls neither setter of a storage hook, nor mounts the page
NoSetterStep ==
    \/ \E t \in FormInputs : SetTopic(t)
    \/ SubmitForm
    \/ \E i \in 1..Len(history) : handleSelectTopic(i)
    \/ \E r \in pending : Rejection(r)

\* C27: the first render has the initial values (the empty history, the
\* light theme) whatever the storage holds; the mount effects after it put
\* the stored value into memory when the storage has one for the key; and
\* the value stays through the steps that call no setter.
C27_TwoPhaseRead ==
    /\ [](phase = "rendered" => history = <<>> /\ theme = Light)
    /\ [][/\ MountEffects
              => /\ (HasItem(storage, HistoryKey) => storage[HistoryKey] = JsonArray(history'))
                 /\ (HasItem(storage, ThemeKey) => storage[ThemeKey] = JsonString(theme'))
                 /\ (~HasItem(storage, HistoryKey) => history' = <<>>)
                 /\ (~HasItem(storage, ThemeKey) => theme' = Light)
          /\ (NoSetterStep => history' = history /\ theme' = theme)]_vars

\* both stored values were loaded by the mount effects and a request for a
\* typed topic is under way
C27_Witness ==
    /\ phase = "mounted"
    /\ settled = Null
    /\ history = <<TopicMax, TopicOld>>
    /\ theme = Dark
    /\ \E r \in pending : r.topic = TopicMin

\* C28 (as claimed): an entry under a key of a storage hook is created
\* only by a step that calls the hook's setter: for the history, clearing
\* it or a generation that adds a topic; for the theme, the toggle.
C28_NoWriteWithoutSetter ==
    [][/\ (~HasItem(storage, HistoryKey) /\ HasItem(storage', HistoryKey))
          => \/ handleClearHistory
             \/ \E r \in pending, outcome \in ModelOutcomes :
                   /\ Completion(r, outcome)
                   /\ ~ResultFailed(handleGenerateReport(outcome))
                   /\ r.topic \notin Range(r.history)
       /\ (~HasItem(storage, ThemeKey) /\ HasItem(storage', ThemeKey)) => toggleTheme]_vars

\* C29: once the theme effect has run, the document root has the class
\* 'dark' or the class 'light', not both, and it is the one of the theme
\* in memory; a toggle goes from each theme to the other, so two toggles
\* give the theme back.
C29_ClassFollowsTheme ==
    /\ [](theme \in {Light, Dark})
    /\ [](phase = "mounted" =>
            /\ (theme = Dark => docClass = {"dark"})
            /\ (theme = Light => docClass = {"light"}))
    /\ [][toggleTheme =>
            /\ (theme = Light => theme' = Dark)
            /\ (theme = Dark => theme' = Light)]_vars

\* the theme is light again after dark had been stored
C29_Witness ==
    /\ phase = "mounted"
    /\ theme = Light
    /\ docClass = {"light"}
    /\ HasItem(storage, ThemeKey)
    /\ storage[ThemeKey] = JsonString(Dark)

\* C30: when getItem throws at mount, or the item is one JSON.parse throws
\* on, the mount effects leave the history and the theme at their initial
\* values and the storage as it is, and the page is mounted; when setItem
\* throws, the storage stays as it is and the history in memory is the
\* newly set one (the cleared list, the list with the new topic), the
\* request ending as it would otherwise.
C30_StorageFailureContained ==
    [][/\ (/\ MountEffects
           /\ \/ storageFault = "getItem"
              \/ HasItem(storage, HistoryKey) /\ storage[HistoryKey] = CorruptItem)
          => /\ history' = <<>>
             /\ theme' = Light
             /\ storage' = storage
             /\ phase' = "mounted"
       /\ storageFault = "setItem"
          => /\ storage' = storage
             /\ (handleClearHistory => history' = <<>>)
             /\ \A r \in pending, outcome \in ModelOutcomes :
                   (/\ Completion(r, outcome)
                    /\ ~ResultFailed(handleGenerateReport(outcome))
                    /\ r.topic \notin Range(history))
                   => /\ history' = <<r.topic>> \o history
                      /\ report' = outcome.output.report
                      /\ ~isLoading']_vars

\* the stored item could not be parsed at mount and is still there, since
\* writing throws; the history in memory has the topic generated since
C30_Witness ==
    /\ storageFault = "setItem"
    /\ HasItem(storage, HistoryKey)
    /\ storage[HistoryKey] = CorruptItem
    /\ history = <<TopicMin>>
    /\ report # Null
    /\ ~isLoading

====
